---- MODULE Spec2Model ----
(***************************************************************************)
(* Model of limacharlie/Spout.py: the Spout object, its background reader  *)
(* greenlet (_handleConnection), shutdown(), the drop counter accessors    *)
(* and the consumer loop that drains Spout.queue.                          *)
(*                                                                         *)
(* The program runs on gevent (monkey.patch_all): greenlets switch only at *)
(* blocking calls (network reads, requests.get, Queue.get, Group.join), so *)
(* every action below is the code between two such calls.                  *)
(***************************************************************************)
EXTENDS Integers, Sequences, FiniteSets, TLC

\* ---------------------------------------------------------------- bounds
MaxLines  == 2   \* lines delivered by the server over the instance's life
MaxConns  == 2   \* connections opened over the instance's life (POST + GETs)
MaxBuffer == 2   \* largest max_buffer a caller passes

\* ---------------------------------------------------------------- inputs
\* Bodies the server can put on one line of the stream.
L_obj1      == "{\"id\":1}"
L_obj2      == "{\"id\":2}"
L_bad       == "{oops"
L_num       == "7"
L_keepalive == "{\"__trace\":\"keepalive\"}"
L_drop2     == "{\"__trace\":\"dropped\",\"n\":2}"
L_dropNeg   == "{\"__trace\":\"dropped\",\"n\":-1}"

Lines == { L_obj1, L_obj2, L_bad, L_num, L_keepalive, L_drop2, L_dropNeg }

\* data_type arguments a caller passes
DataTypes == { "detect", "syslog" }

\* The registration endpoint and the Location headers the service answers with.
PostUrl   == "https://output.limacharlie.io/output/oid"
Locations == { "https://output.limacharlie.io/output/oid/r1" }

\* What the service does with the registration POST.
PostOutcomes == { "redirect", "noredirect", "error" }

VARIABLES
    ctor,           \* "new" | "ok" | "failed": progress of Spout.__init__
    data_type,      \* self._data_type
    is_parse,       \* self._is_parse
    max_buffer,     \* self._max_buffer
    dropped,        \* self._dropped
    isStop,         \* self._isStop
    queue,          \* self.queue (gevent Queue, maxsize = max_buffer)
    hConn,          \* self._hConn: index into conns, 0 when unset
    finalSpoutUrl,  \* self._finalSpoutUrl, "" when unset
    conns,          \* every response stream opened: "open" | "ended" | "closed"
    reqs,           \* every requests.post / requests.get call made by the Spout
    rpc,            \* the _handleConnection greenlet: where it is
    spc,            \* the shutdown() call: where it is
    cpc,            \* the consumer of Spout.queue: where it is
    received,       \* history: lines the reader loop was handed, in order
    consumed        \* history: items the consumer got from the queue

vars == << ctor, data_type, is_parse, max_buffer, dropped, isStop, queue, hConn,
           finalSpoutUrl, conns, reqs, rpc, spc, cpc, received, consumed >>

\* ------------------------------------------------------- pure functions
\* json.loads on the lines above: ok = FALSE is a ValueError.
json_loads(line) ==
    CASE line = L_obj1      -> [ok |-> TRUE,  type |-> "dict", val |-> ("id" :> 1)]
      [] line = L_obj2      -> [ok |-> TRUE,  type |-> "dict", val |-> ("id" :> 2)]
      [] line = L_bad       -> [ok |-> FALSE, type |-> "none", val |-> << >>]
      [] line = L_num       -> [ok |-> TRUE,  type |-> "int",  val |-> << >>]
      [] line = L_keepalive -> [ok |-> TRUE,  type |-> "dict", val |-> ("__trace" :> "keepalive")]
      [] line = L_drop2     -> [ok |-> TRUE,  type |-> "dict", val |-> ("__trace" :> "dropped" @@ "n" :> 2)]
      [] line = L_dropNeg   -> [ok |-> TRUE,  type |-> "dict", val |-> ("__trace" :> "dropped" @@ "n" :> (0 - 1))]

\* int( x ) on a JSON integer.
PyInt(x) == x

\* Variants of Queue.full() that are off by one, either way.
QueueFull_Loose(q) == Len(q) > max_buffer
QueueFull_Tight(q) == Len(q) >= max_buffer - 1

\* Queue.full(): qsize() >= maxsize.
QueueFull(q) == Len(q) >= max_buffer

\* The outcome of a statement of the per-line try block: it raised, or it
\* left the queue and the counter as given.
Raised == [exc |-> TRUE, queue |-> queue, dropped |-> dropped]
Ran(q, d) == [exc |-> FALSE, queue |-> q, dropped |-> d]

\* Variant of put_nowait that discards on a full queue without raising.
put_nowait_SilentFull(item) ==
    IF QueueFull(queue) THEN Ran(queue, dropped) ELSE Ran(Append(queue, item), dropped)

\* Variant of put_nowait that inserts at the head of the queue.
put_nowait_Lifo(item) ==
    IF QueueFull(queue) THEN Raised ELSE Ran(<< item >> \o queue, dropped)

\* Queue.put_nowait( item ): raises Full on a full queue.
put_nowait(item) ==
    IF QueueFull(queue) THEN Raised ELSE Ran(Append(queue, item), dropped)

\* Variant of the trace branch that counts a dropped report as one drop.
HandleTrace_CountsOne(obj) ==
    IF obj["__trace"] = "dropped"
        THEN IF "n" \in DOMAIN obj THEN Ran(queue, dropped + 1) ELSE Raised
        ELSE Ran(queue, dropped)

\* Variant of the trace branch whose else pairs with the inner if: a trace
\* message that is no drop report is enqueued.
HandleTrace_DanglingElse(obj) ==
    IF obj["__trace"] = "dropped"
        THEN IF "n" \in DOMAIN obj
                THEN Ran(queue, dropped + PyInt(obj["n"]))
                ELSE Raised
        ELSE IF QueueFull(queue) THEN Raised ELSE Ran(Append(queue, obj), dropped)

\* The trace branch: line[ '__trace' ] and self._dropped += int( line[ 'n' ] ).
HandleTrace(obj) ==
    IF obj["__trace"] = "dropped"
        THEN IF "n" \in DOMAIN obj
                THEN Ran(queue, dropped + PyInt(obj["n"]))
                ELSE Raised                                  \* KeyError
        ELSE Ran(queue, dropped)

\* The body of the inner try.
TryLine(line) ==
    IF is_parse
        THEN LET j == json_loads(line) IN
             IF ~j.ok THEN Raised                            \* ValueError
             ELSE IF j.type # "dict" THEN Raised             \* '__trace' in 7: TypeError
             ELSE IF "__trace" \in DOMAIN j.val THEN HandleTrace(j.val)
             ELSE put_nowait(j.val)
        ELSE put_nowait(line)

\* Variant of the inner try whose except does not count the line.
HandleLine_Uncounted(line) ==
    LET r == TryLine(line) IN
    IF r.exc THEN [queue |-> queue, dropped |-> dropped]
             ELSE [queue |-> r.queue, dropped |-> r.dropped]

\* The inner try with its bare except.
HandleLine(line) ==
    LET r == TryLine(line) IN
    IF r.exc THEN [queue |-> queue, dropped |-> dropped + 1]
             ELSE [queue |-> r.queue, dropped |-> r.dropped]

\* Variant that reconnects to the registration endpoint.
ReconnectUrl_Post == PostUrl

\* The URL of the reconnect GET.
ReconnectUrl == finalSpoutUrl

\* Variant of the data type check that accepts anything.
ValidDataType_Any(dt) == TRUE

\* `self._data_type not in ( 'event', 'detect', 'audit' )`, negated.
ValidDataType(dt) == dt \in { "event", "detect", "audit" }

\* Variant of getDropped that reports the queue's size.
getDropped_QueueSize == Len(queue)

\* getDropped().
getDropped == dropped

\* ------------------------------------------------------------------ Init
Init ==
    /\ ctor = "new"
    /\ data_type = ""
    /\ is_parse = TRUE
    /\ max_buffer = 0
    /\ dropped = 0
    /\ isStop = FALSE
    /\ queue = << >>
    /\ hConn = 0
    /\ finalSpoutUrl = ""
    /\ conns = << >>
    /\ reqs = << >>
    /\ rpc = "none"
    /\ spc = "idle"
    /\ cpc = "idle"
    /\ received = << >>
    /\ consumed = << >>

\* -------------------------------------------------------------- __init__
\* Spout( man, dt, is_parse = p, max_buffer = mb ) with the service answering
\* the registration POST by outcome (and Location loc when it redirects).
Construct(dt, p, mb, outcome, loc) ==
    /\ ctor = "new"
    /\ data_type' = dt
    /\ is_parse' = p
    /\ max_buffer' = mb
    /\ dropped' = 0
    /\ isStop' = FALSE
    /\ IF ~ValidDataType(dt)
          THEN /\ ctor' = "failed"
               /\ UNCHANGED << queue, hConn, finalSpoutUrl, conns, reqs, rpc >>
          ELSE /\ queue' = << >>
               /\ reqs' = Append(reqs, [method |-> "POST", url |-> PostUrl])
               /\ CASE outcome = "error" ->
                        /\ ctor' = "failed"
                        /\ UNCHANGED << hConn, finalSpoutUrl, conns, rpc >>
                    [] outcome = "noredirect" ->
                        /\ conns' = Append(conns, "open")
                        /\ hConn' = Len(conns) + 1
                        /\ ctor' = "failed"                  \* history[ 0 ]: IndexError
                        /\ UNCHANGED << finalSpoutUrl, rpc >>
                    [] outcome = "redirect" ->
                        /\ conns' = Append(conns, "open")
                        /\ hConn' = Len(conns) + 1
                        /\ finalSpoutUrl' = loc
                        /\ rpc' = "start"
                        /\ ctor' = "ok"
    /\ UNCHANGED << spc, cpc, received, consumed >>

\* ------------------------------------------------------ _handleConnection
\* `while not self._isStop` as evaluated when the greenlet reaches it.
LoopTop == IF isStop THEN "done" ELSE "recv"

\* Variant of the loop that opens its own stream before reading, instead of
\* reading the one the constructor opened.
ReaderStart_Reconnects ==
    /\ rpc = "start"
    /\ rpc' = IF isStop THEN "done" ELSE "get"
    /\ reqs' = IF isStop THEN reqs
                         ELSE Append(reqs, [method |-> "GET", url |-> finalSpoutUrl])
    /\ UNCHANGED << ctor, data_type, is_parse, max_buffer, dropped, isStop, queue, hConn,
                    finalSpoutUrl, conns, spc, cpc, received, consumed >>

\* The greenlet is scheduled for the first time.
ReaderStart ==
    /\ rpc = "start"
    /\ rpc' = LoopTop
    /\ UNCHANGED << ctor, data_type, is_parse, max_buffer, dropped, isStop, queue, hConn,
                    finalSpoutUrl, conns, reqs, spc, cpc, received, consumed >>

\* Variant of the loop body without the inner try: a line that raises ends
\* the read of the connection, as a transport error does.
ReadLine_NoInnerTry(line) ==
    /\ rpc = "recv"
    /\ conns[hConn] = "open"
    /\ Len(received) < MaxLines
    /\ received' = Append(received, line)
    /\ LET r == TryLine(line) IN
        IF r.exc
            THEN /\ Len(conns) < MaxConns
                 /\ conns' = [conns EXCEPT ![hConn] = "ended"]
                 /\ rpc' = "get"
                 /\ reqs' = Append(reqs, [method |-> "GET", url |-> finalSpoutUrl])
                 /\ UNCHANGED << queue, dropped >>
            ELSE /\ queue' = r.queue
                 /\ dropped' = r.dropped
                 /\ UNCHANGED << conns, rpc, reqs >>
    /\ UNCHANGED << ctor, data_type, is_parse, max_buffer, isStop, hConn,
                    finalSpoutUrl, spc, cpc, consumed >>

\* iter_lines hands the loop one line.
ReadLine(line) ==
    /\ rpc = "recv"
    /\ conns[hConn] = "open"
    /\ Len(received) < MaxLines
    /\ LET r == HandleLine(line) IN
        /\ queue' = r.queue
        /\ dropped' = r.dropped
    /\ received' = Append(received, line)
    /\ UNCHANGED << ctor, data_type, is_parse, max_buffer, isStop, hConn,
                    finalSpoutUrl, conns, reqs, rpc, spc, cpc, consumed >>

\* Lines 115-127 once iter_lines has ended or raised: reconnect unless stopping.
AfterStream ==
    IF isStop
        THEN /\ rpc' = "done"
             /\ UNCHANGED reqs
        ELSE /\ rpc' = "get"
             /\ reqs' = Append(reqs, [method |-> "GET", url |-> ReconnectUrl])

\* The server closes the stream, or the transport fails or times out.
StreamEnd ==
    /\ rpc = "recv"
    /\ conns[hConn] = "open"
    /\ isStop \/ Len(conns) < MaxConns
    /\ conns' = [conns EXCEPT ![hConn] = "ended"]
    /\ AfterStream
    /\ UNCHANGED << ctor, data_type, is_parse, max_buffer, dropped, isStop, queue, hConn,
                    finalSpoutUrl, spc, cpc, received, consumed >>

\* The read fails because shutdown() closed the connection under it.
ReadClosed ==
    /\ rpc = "recv"
    /\ conns[hConn] = "closed"
    /\ AfterStream
    /\ UNCHANGED << ctor, data_type, is_parse, max_buffer, dropped, isStop, queue, hConn,
                    finalSpoutUrl, conns, spc, cpc, received, consumed >>

\* requests.get returns a response; the loop goes back to its top.
GetReturn ==
    /\ rpc = "get"
    /\ conns' = Append(conns, "open")
    /\ hConn' = Len(conns) + 1
    /\ rpc' = LoopTop
    /\ UNCHANGED << ctor, data_type, is_parse, max_buffer, dropped, isStop, queue,
                    finalSpoutUrl, reqs, spc, cpc, received, consumed >>

\* requests.get raises (connection refused, timeout): nothing catches it.
GetFail ==
    /\ rpc = "get"
    /\ rpc' = "crashed"
    /\ UNCHANGED << ctor, data_type, is_parse, max_buffer, dropped, isStop, queue, hConn,
                    finalSpoutUrl, conns, reqs, spc, cpc, received, consumed >>

\* -------------------------------------------------------------- shutdown
\* Variant of shutdown() that does not close the connection.
Shutdown_NoClose ==
    /\ ctor = "ok"
    /\ spc = "idle"
    /\ isStop' = TRUE
    /\ spc' = "joining"
    /\ UNCHANGED << ctor, data_type, is_parse, max_buffer, dropped, queue, hConn,
                    finalSpoutUrl, conns, reqs, rpc, cpc, received, consumed >>

\* Variant of shutdown() that also resumes a getter waiting on the queue.
Shutdown_WakesConsumer ==
    /\ ctor = "ok"
    /\ spc = "idle"
    /\ isStop' = TRUE
    /\ conns' = [conns EXCEPT ![hConn] = "closed"]
    /\ spc' = "joining"
    /\ cpc' = "idle"
    /\ UNCHANGED << ctor, data_type, is_parse, max_buffer, dropped, queue, hConn,
                    finalSpoutUrl, reqs, rpc, received, consumed >>

\* shutdown() up to the join: set the flag, close the current connection.
Shutdown ==
    /\ ctor = "ok"
    /\ spc = "idle"
    /\ isStop' = TRUE
    /\ conns' = [conns EXCEPT ![hConn] = "closed"]
    /\ spc' = "joining"
    /\ UNCHANGED << ctor, data_type, is_parse, max_buffer, dropped, queue, hConn,
                    finalSpoutUrl, reqs, rpc, cpc, received, consumed >>

\* self._threads.join( timeout = 2 ) returns: the greenlet ended or 2 s passed.
ShutdownReturn ==
    /\ spc = "joining"
    /\ spc' = "returned"
    /\ UNCHANGED << ctor, data_type, is_parse, max_buffer, dropped, isStop, queue, hConn,
                    finalSpoutUrl, conns, reqs, rpc, cpc, received, consumed >>

\* Variant of resetDroppedCounter() that takes one off the counter.
ResetDroppedCounter_Decrement ==
    /\ ctor = "ok"
    /\ dropped' = dropped - 1
    /\ UNCHANGED << ctor, data_type, is_parse, max_buffer, isStop, queue, hConn,
                    finalSpoutUrl, conns, reqs, rpc, spc, cpc, received, consumed >>

\* ------------------------------------------------------- drop counter
ResetDroppedCounter ==
    /\ ctor = "ok"
    /\ dropped' = 0
    /\ UNCHANGED << ctor, data_type, is_parse, max_buffer, isStop, queue, hConn,
                    finalSpoutUrl, conns, reqs, rpc, spc, cpc, received, consumed >>

\* ----------------------------------------------------------- consumer
\* sp.queue.get(): takes the head, or blocks on an empty queue.
Get ==
    /\ ctor = "ok"
    /\ cpc = "idle"
    /\ IF queue # << >>
          THEN /\ consumed' = Append(consumed, Head(queue))
               /\ queue' = Tail(queue)
               /\ UNCHANGED cpc
          ELSE /\ cpc' = "blocked"
               /\ UNCHANGED << queue, consumed >>
    /\ UNCHANGED << ctor, data_type, is_parse, max_buffer, dropped, isStop, hConn,
                    finalSpoutUrl, conns, reqs, rpc, spc, received >>

\* The blocked getter is handed the item a put made available.
GetWake ==
    /\ cpc = "blocked"
    /\ queue # << >>
    /\ consumed' = Append(consumed, Head(queue))
    /\ queue' = Tail(queue)
    /\ cpc' = "idle"
    /\ UNCHANGED << ctor, data_type, is_parse, max_buffer, dropped, isStop, hConn,
                    finalSpoutUrl, conns, reqs, rpc, spc, received >>

\* ------------------------------------------------------------------ Next
Next ==
    \/ \E dt \in DataTypes, p \in BOOLEAN, mb \in 1..MaxBuffer,
          outcome \in PostOutcomes, loc \in Locations :
            Construct(dt, p, mb, outcome, loc)
    \/ ReaderStart
    \/ \E line \in Lines : ReadLine(line)
    \/ StreamEnd
    \/ ReadClosed
    \/ GetReturn
    \/ GetFail
    \/ Shutdown
    \/ ShutdownReturn
    \/ ResetDroppedCounter
    \/ Get
    \/ GetWake

Spec == Init /\ [][Next]_vars

\* The steps the runtime is bound to take: a scheduled greenlet runs, a read
\* on a closed connection fails, requests.get returns or raises within its
\* timeout, join returns within its timeout, a getter with an item is woken.
\* Lines arriving and the server ending the stream are up to the service.
Forced == ReaderStart \/ ReadClosed \/ GetReturn \/ GetFail

FairSpec ==
    /\ Spec
    /\ WF_vars(Forced)
    /\ WF_vars(ShutdownReturn)
    /\ WF_vars(GetWake)

\* The instance whose owner never calls resetDroppedCounter().
NextNoReset ==
    \/ \E dt \in DataTypes, p \in BOOLEAN, mb \in 1..MaxBuffer,
          outcome \in PostOutcomes, loc \in Locations :
            Construct(dt, p, mb, outcome, loc)
    \/ ReaderStart
    \/ \E line \in Lines : ReadLine(line)
    \/ StreamEnd
    \/ ReadClosed
    \/ GetReturn
    \/ GetFail
    \/ Shutdown
    \/ ShutdownReturn
    \/ Get
    \/ GetWake

NoResetSpec == Init /\ [][NextNoReset]_vars

\* ================================================================ claims
\* What the stream carries, stated apart from the code's own functions.
PlainLines  == { L_obj1, L_obj2 }          \* decodable objects without __trace
BrokenLines == { L_bad, L_num }            \* lines whose handling raises
ReaderExited == rpc \in { "done", "crashed" }

\* The item a line stands for in the queue.
ItemOf(line) ==
    IF is_parse
        THEN CASE line = L_obj1 -> ("id" :> 1)
               [] line = L_obj2 -> ("id" :> 2)
        ELSE line

\* Lines the reader tries to enqueue.
Enqueueable(line) == is_parse => line \in PlainLines

\* This step is the reader loop handling line.
Handled(line) == received' = Append(received, line)

\* The reader is still reading the connection it was reading.
StillReading ==
    /\ rpc = "recv" /\ rpc' = "recv"
    /\ hConn' = hConn /\ conns' = conns /\ conns[hConn] = "open"
    /\ reqs' = reqs

\* ---------------------------------------------------------------- C1
\* C1: with parsing enabled, a line whose handling raises (malformed JSON, a
\* decoded value that is no object, a full queue) adds exactly 1 to the drop
\* counter, leaves the queue alone and leaves the reader reading the same
\* connection without a reconnect; the valid line that follows a broken one
\* is enqueued when the queue has room.
C1_Fails(line) ==
    \/ line \in BrokenLines
    \/ line \in PlainLines /\ Len(queue) >= max_buffer

C1_LineFailureContained ==
    [][ \A line \in Lines :
          (is_parse /\ Handled(line)) =>
             /\ C1_Fails(line) =>
                   /\ dropped' = dropped + 1
                   /\ queue' = queue
                   /\ StillReading
             /\ ( /\ line \in PlainLines
                  /\ received # << >>
                  /\ received[Len(received)] \in BrokenLines
                  /\ Len(queue) < max_buffer ) =>
                   /\ queue' = Append(queue, ItemOf(line))
                   /\ dropped' = dropped
                   /\ StillReading
      ]_vars

\* A broken line then a valid one on the first connection: the valid one is queued.
C1_Witness ==
    /\ is_parse
    /\ Len(reqs) = 1 /\ Len(conns) = 1
    /\ received = << L_bad, L_obj1 >>
    /\ queue = << ItemOf(L_obj1) >>
    /\ dropped = 1

\* ---------------------------------------------------------------- C2
\* C2: when the queue holds max_buffer items and the reader handles one more
\* line it would enqueue, the step completes at once: the counter grows by
\* exactly 1, the queue is unchanged and the reader goes on reading.
C2_FullQueueDrops ==
    [][ \A line \in Lines :
          (Handled(line) /\ Enqueueable(line) /\ Len(queue) = max_buffer) =>
             /\ dropped' = dropped + 1
             /\ queue' = queue
             /\ StillReading
      ]_vars

C2_Witness ==
    /\ ctor = "ok"
    /\ Len(queue) = max_buffer
    /\ Len(received) = max_buffer + 1
    /\ \A i \in 1..Len(received) : Enqueueable(received[i])
    /\ consumed = << >>
    /\ dropped = 1
    /\ rpc = "recv"

\* ---------------------------------------------------------------- C3
\* C3: when the stream ends and shutdown has not been called, the reader
\* issues a GET to the URL recorded at construction, no second POST is ever
\* made, the reader reads the connection the GET returns, and the recorded
\* URL never changes once the instance is constructed.
C3_ReconnectUsesRecordedUrl ==
    /\ [][ (rpc = "recv" /\ rpc' # "recv" /\ ~isStop) =>
              /\ rpc' = "get"
              /\ reqs' = Append(reqs, [method |-> "GET", url |-> finalSpoutUrl])
         ]_vars
    /\ [][ (rpc = "get" /\ rpc' \notin { "get", "crashed" }) =>
              /\ hConn' = Len(conns) + 1
              /\ Len(conns') = hConn' /\ conns'[hConn'] = "open"
              /\ reqs' = reqs
              /\ ~isStop => rpc' = "recv"
         ]_vars
    /\ [][ ctor = "ok" => finalSpoutUrl' = finalSpoutUrl ]_vars
    /\ [](Cardinality({ i \in 1..Len(reqs) : reqs[i].method = "POST" }) <= 1)
    /\ [](ctor = "ok" => finalSpoutUrl \in Locations)

\* The first stream ended by itself and the reader reads the second one.
C3_Witness ==
    /\ ~isStop
    /\ conns = << "ended", "open" >>
    /\ hConn = 2
    /\ rpc = "recv"
    /\ Len(reqs) = 2 /\ reqs[2].method = "GET" /\ reqs[2].url = finalSpoutUrl

\* ---------------------------------------------------------------- C4
\* C4: the background task has exited only if shutdown() was called.
C4_ExitOnlyWhenStopping == ReaderExited => isStop

\* ---------------------------------------------------------------- C5
\* C5: once shutdown() has set the flag while the reader is reading, the
\* reader task terminates; and no request is issued once the flag is set.
C5_ShutdownStopsReader ==
    /\ (isStop /\ rpc = "recv") ~> (rpc = "done")
    /\ [][ isStop => reqs' = reqs ]_vars

\* shutdown() came while the reader was reading the first stream: the task ended.
C5_Witness ==
    /\ isStop
    /\ rpc = "done"
    /\ received # << >>
    /\ conns = << "closed" >>
    /\ Len(reqs) = 1

C7_QueueBounded == Len(queue) <= max_buffer

\* The queue is at capacity and a line was turned away.
C7_Witness ==
    /\ ctor = "ok"
    /\ Len(queue) = max_buffer
    /\ Len(received) > max_buffer
    /\ \A i \in 1..Len(received) : Enqueueable(received[i])
    /\ consumed = << >>

\* ---------------------------------------------------------------- C8
\* C8: the drop counter decreases only by resetDroppedCounter(): a step that
\* lowers it sets it to 0 and is no step of the reader loop or of shutdown().
C8_DroppedMonotone ==
    [][ dropped' < dropped =>
           /\ dropped' = 0
           /\ received' = received /\ rpc' = rpc /\ spc' = spc
      ]_vars

\* ---------------------------------------------------------------- C9
\* C9: with parsing enabled, handling {"__trace": "dropped", "n": 2} adds
\* exactly 2 to the drop counter and leaves the queue alone; no object with a
\* __trace key whose value is "dropped" is ever queued or consumed.
C9_ServerDropsCounted ==
    /\ [][ (is_parse /\ Handled(L_drop2)) =>
              /\ dropped' = dropped + 2
              /\ queue' = queue
              /\ consumed' = consumed
         ]_vars
    /\ [](is_parse =>
            \A i \in 1..Len(consumed \o queue) :
                LET item == (consumed \o queue)[i] IN
                ~("__trace" \in DOMAIN item /\ item["__trace"] = "dropped"))

C9_Witness ==
    /\ is_parse
    /\ received = << L_obj1, L_drop2 >>
    /\ queue = << ItemOf(L_obj1) >>
    /\ dropped = 2

\* ---------------------------------------------------------------- C10
\* C10 as stated: a consumer blocked in get once shutdown() has been called
\* is released.
C10_ShutdownReleasesConsumer ==
    (cpc = "blocked" /\ isStop) ~> (cpc # "blocked")

\* C10 as amended: a consumer blocked in get is released only by an item in
\* the queue, which it takes; shutdown() leaves the queue and the blocked
\* consumer as they are.
C10_OnlyDataReleasesConsumer ==
    /\ [][ (cpc = "blocked" /\ cpc' # "blocked") =>
              /\ queue # << >>
              /\ consumed' = Append(consumed, Head(queue))
              /\ queue' = Tail(queue)
         ]_vars
    /\ [][ (~isStop /\ isStop') => (cpc' = cpc /\ queue' = queue) ]_vars

\* The consumer is still blocked after shutdown() returned and the task ended.
C10_Witness ==
    /\ cpc = "blocked"
    /\ queue = << >>
    /\ isStop
    /\ spc = "returned"
    /\ rpc = "done"

\* The connections that are open.
OpenConns == { i \in 1..Len(conns) : conns[i] = "open" }

\* ---------------------------------------------------------------- C11
\* C11: a constructor call whose data type is none of event, detect, audit
\* fails having made no request and opened no connection, and no reader
\* task exists.
C11_BadDataTypeFailsEarly ==
    (ctor # "new" /\ data_type \notin { "event", "detect", "audit" }) =>
        /\ ctor = "failed"
        /\ reqs = << >>
        /\ conns = << >>
        /\ rpc = "none"

C11_Witness ==
    /\ data_type = "syslog"
    /\ ctor = "failed"
    /\ reqs = << >>
    /\ rpc = "none"

\* ---------------------------------------------------------------- C12
\* C12: when construction has failed after the registration POST was made,
\* no reader task exists, no stream URL is recorded and no connection is
\* left open.
C12_FailedConstructionLeavesNothing ==
    (ctor = "failed" /\ reqs # << >>) =>
        /\ rpc = "none"
        /\ finalSpoutUrl = ""
        /\ OpenConns = { }

\* ---------------------------------------------------------------- C13
\* C13: in the state resetDroppedCounter() leaves, getDropped() is 0,
\* whatever the counter held before.
C13_ResetZeroesCounter ==
    [][ ResetDroppedCounter => getDropped' = 0 ]_vars

\* A line was counted as dropped and the counter reads 0 again.
C13_Witness ==
    /\ is_parse
    /\ received = << L_bad, L_drop2 >>
    /\ getDropped = 0

\* ---------------------------------------------------------------- C14
\* C14: from the step that sets the stopping flag on, the queue gets no new
\* item: it changes only by the consumer taking its head.
C14_NoEnqueueAfterShutdown ==
    [][ isStop' =>
           \/ queue' = queue
           \/ /\ queue # << >>
              /\ queue' = Tail(queue)
              /\ consumed' = Append(consumed, Head(queue))
      ]_vars

\* Two items were queued, shutdown() came, the task ended; the consumer has
\* the first item and the second is still queued.
C14_Witness ==
    /\ isStop
    /\ rpc = "done"
    /\ spc = "returned"
    /\ received = << L_obj1, L_obj2 >>
    /\ consumed = << ItemOf(L_obj1) >>
    /\ queue = << ItemOf(L_obj2) >>

\* ---------------------------------------------------------------- C15
\* C15 as stated: a constructed instance has exactly one open connection at
\* every moment.
C15_ExactlyOneOpen ==
    ctor = "ok" => Cardinality(OpenConns) = 1

\* C15 as amended: there is never more than one open connection, and while
\* the reader reads a stream and shutdown() has not been called there is
\* exactly one, the one the reader holds.
C15_AtMostOneOpen ==
    /\ Cardinality(OpenConns) <= 1
    /\ (rpc = "recv" /\ ~isStop) => OpenConns = { hConn }

\* After a reconnect: the old stream is not open, the new one is.
C15_Witness ==
    /\ ~isStop
    /\ rpc = "recv"
    /\ hConn = 2
    /\ conns = << "ended", "open" >>
    /\ received # << >>

\* ---------------------------------------------------------------- C16
\* C16: a constructed instance has made exactly one POST, its first request;
\* until a GET has been made the reader reads the POST's connection; and a
\* GET is issued only by the reader at the end of the stream it was reading.
C16_OnePostThenGets ==
    /\ [](ctor = "ok" =>
            /\ reqs # << >>
            /\ reqs[1] = [method |-> "POST", url |-> PostUrl]
            /\ \A i \in 2..Len(reqs) : reqs[i].method = "GET")
    /\ []((rpc = "recv" /\ Len(reqs) = 1) => hConn = 1)
    /\ [][ (ctor = "ok" /\ reqs' # reqs) =>
              /\ rpc = "recv"
              /\ conns[hConn] = "open"
              /\ conns'[hConn] # "open"
              /\ hConn' = hConn
         ]_vars

\* The reader has read a line from the POST's connection and no GET was made.
C16_Witness ==
    /\ ctor = "ok"
    /\ rpc = "recv"
    /\ hConn = 1
    /\ Len(reqs) = 1
    /\ Len(received) = 1

\* ---------------------------------------------------------------- C17
\* C17: with parsing enabled no object with a __trace key is ever queued or
\* consumed, and handling a keep-alive trace message changes neither the
\* drop counter nor the queue.
C17_TraceNeverQueued ==
    /\ [](is_parse =>
            \A i \in 1..Len(consumed \o queue) :
                "__trace" \notin DOMAIN (consumed \o queue)[i])
    /\ [][ (is_parse /\ Handled(L_keepalive)) =>
              /\ dropped' = dropped
              /\ queue' = queue
              /\ consumed' = consumed
         ]_vars

C17_Witness ==
    /\ is_parse
    /\ received = << L_keepalive, L_obj1 >>
    /\ queue = << ItemOf(L_obj1) >>
    /\ dropped = 0

\* ---------------------------------------------------------------- C18
\* C18: the items consumed followed by the items queued are, in order, a
\* subsequence of the items of the lines received.
RECURSIVE IsSubseq(_, _)
IsSubseq(s, t) ==
    IF s = << >> THEN TRUE
    ELSE IF t = << >> THEN FALSE
    ELSE IF Head(s) = Head(t) THEN IsSubseq(Tail(s), Tail(t))
    ELSE IsSubseq(s, Tail(t))

ReceivedItems ==
    LET kept == SelectSeq(received, Enqueueable)
    IN  [ i \in 1..Len(kept) |-> ItemOf(kept[i]) ]

C18_ConsumedIsSubsequence ==
    ctor = "ok" => IsSubseq(consumed \o queue, ReceivedItems)

\* Two connections, the first line consumed, the second dropped on a full queue.
C18_Witness ==
    /\ is_parse
    /\ Len(conns) = 2
    /\ received = << L_obj1, L_obj2 >>
    /\ consumed = << ItemOf(L_obj1) >>
    /\ queue = << >>
    /\ dropped = 1

\* ---------------------------------------------------------------- C19
\* C19: with parsing enabled and no counter reset, the lines handled are the
\* items enqueued plus the well-formed trace messages plus the unit drops,
\* the unit drops being the counter less what the drop reports added.
TraceLines == { L_keepalive, L_drop2, L_dropNeg }

ReportedDrops(line) ==
    CASE line = L_drop2   -> 2
      [] line = L_dropNeg -> 0 - 1
      [] OTHER            -> 0

RECURSIVE SumReported(_)
SumReported(s) ==
    IF s = << >> THEN 0 ELSE ReportedDrops(Head(s)) + SumReported(Tail(s))

InTraceLines(line) == line \in TraceLines

C19_EveryLineAccounted ==
    (ctor = "ok" /\ is_parse) =>
        LET enqueued  == Len(consumed) + Len(queue)
            traces    == Len(SelectSeq(received, InTraceLines))
            unitDrops == dropped - SumReported(received)
        IN  /\ unitDrops >= 0
            /\ Len(received) = enqueued + traces + unitDrops

\* One line enqueued, one counted as a unit drop.
C19_Witness ==
    /\ is_parse
    /\ received = << L_obj1, L_num >>
    /\ Len(consumed) + Len(queue) = 1
    /\ dropped = 1

\* ---------------------------------------------------------------- C20
\* C20: once shutdown() has returned and the reader task has exited, no
\* connection is open.
C20_NothingOpenAfterShutdown ==
    (spc = "returned" /\ ReaderExited) => OpenConns = { }
====
